---- MODULE Spec2Model ----
(***************************************************************************)
(* A model of python-arcopa: the Match record, the Spec variants of        *)
(* arg_parse_base.py with their match generators, and the sugar layer of   *)
(* arg_parse.py.                                                           *)
(*                                                                         *)
(* A Python str is a sequence of one-character strings.  A generator is    *)
(* modelled twice: as the sequence of everything it yields (the operators  *)
(* X_match below, used wherever the code drains a child generator), and,   *)
(* for the generator the consumer holds, as a state machine that yields    *)
(* one Match per step (the actions further down).                          *)
(***************************************************************************)
EXTENDS Integers, Sequences, FiniteSets, TLC

(***************************************************************************)
(* Bounds of the model.                                                    *)
(***************************************************************************)
\* longest input string drawn by Init
MaxLen == 3
\* depth of nested `yield from` frames after which the interpreter gives up
\* on ZeroOrMore.traverse (RecursionError); always larger than any depth a
\* remainder-shrinking subspec can reach on an input of MaxLen characters
RecursionLimit == MaxLen + 3

(***************************************************************************)
(* Strings.                                                                *)
(***************************************************************************)
\* the characters inputs are built from
Alphabet == {"a", " ", "1", "]"}

\* what the regex class \s accepts (the ASCII part of it)
Whitespace == {" ", "\t", "\n", "\r", "\f"}

\* what the regex class [0-9] accepts
Digits == {"0", "1", "2", "3", "4", "5", "6", "7", "8", "9"}

\* string[:end]
Upto(string, end) == SubSeq(string, 1, end)

\* string[end:]
From(string, end) == SubSeq(string, end + 1, Len(string))

\* string.startswith(prefix)
StartsWith(string, prefix) ==
    /\ Len(prefix) <= Len(string)
    /\ Upto(string, Len(prefix)) = prefix

\* the length of the longest run of characters of `class` at string[start:]
RunLength(string, start, class) ==
    CHOOSE n \in 0..(Len(string) - start) :
        /\ \A i \in 1..n : string[start + i] \in class
        /\ (start + n = Len(string) \/ string[start + n + 1] \notin class)

\* the length of the longest run of characters outside `class` at string[start:]
RunLengthNot(string, start, class) ==
    CHOOSE n \in 0..(Len(string) - start) :
        /\ \A i \in 1..n : string[start + i] \notin class
        /\ (start + n = Len(string) \/ string[start + n + 1] \in class)

\* ''.join(strings)
RECURSIVE Join(_)
Join(strings) ==
    IF strings = <<>> THEN <<>> ELSE Head(strings) \o Join(Tail(strings))

\* the concatenation of a sequence of sequences, in order
RECURSIVE Flatten(_)
Flatten(lists) ==
    IF lists = <<>> THEN <<>> ELSE Head(lists) \o Flatten(Tail(lists))

\* list(reversed(sequence))
Reversed(sequence) ==
    [i \in 1..Len(sequence) |-> sequence[Len(sequence) + 1 - i]]

(***************************************************************************)
(* Converted values.  Python values of different types are never equal, so *)
(* each type is a record with a field of its own.                          *)
(***************************************************************************)
NON_CAPTURING == [nc |-> TRUE]

StrV(s) == [str |-> s]

IntV(n) == [int |-> n]

ListV(items) == [list |-> items]

\* a dict, as the sequence of its <<key, value>> items in insertion order
DictV(items) == [dict |-> items]

Match(converted, captured, rest) ==
    [converted |-> converted, captured |-> captured, rest |-> rest]

replace_converted(self, converted) ==
    Match(converted, self.captured, self.rest)

DigitValue(c) ==
    CASE c = "0" -> 0 [] c = "1" -> 1 [] c = "2" -> 2 [] c = "3" -> 3
      [] c = "4" -> 4 [] c = "5" -> 5 [] c = "6" -> 6 [] c = "7" -> 7
      [] c = "8" -> 8 [] c = "9" -> 9

\* the value of a run of decimal digits
RECURSIVE DecimalValue(_)
DecimalValue(digits) ==
    IF digits = <<>> THEN 0
    ELSE 10 * DecimalValue(Upto(digits, Len(digits) - 1))
         + DigitValue(digits[Len(digits)])

\* int(text) for text matching [+-]?[0-9]+
ParseInt(text) ==
    IF text[1] = "-" THEN 0 - DecimalValue(Tail(text))
    ELSE IF text[1] = "+" THEN DecimalValue(Tail(text))
    ELSE DecimalValue(text)

(***************************************************************************)
(* Spec variants.                                                          *)
(***************************************************************************)
End == [tag |-> "End"]

Exact(exact) == [tag |-> "Exact", exact |-> exact]

Transform(spec, transform_function) ==
    [tag |-> "Transform", spec |-> spec, transform_function |-> transform_function]

NonCapturing(subspec) == [tag |-> "NonCapturing", subspec |-> subspec]

Integer == [tag |-> "Integer"]

Word == [tag |-> "Word"]

String == [tag |-> "String"]

StringWithout(exclude) == [tag |-> "StringWithout", exclude |-> exclude]

Either(options) == [tag |-> "Either", options |-> options]

Sequence(sequence) == [tag |-> "Sequence", sequence |-> sequence]

ZeroOrMore(subspec) == [tag |-> "ZeroOrMore", subspec |-> subspec]

OneOrMore(subspec) == [tag |-> "OneOrMore", subspec |-> subspec]

\* options_dict: the sequence of <<name, spec>> items in insertion order
NamedOr(options_dict) == [tag |-> "NamedOr", options_dict |-> options_dict]

\* sequence_dict: the sequence of <<name, spec>> items in insertion order
NamedAnd(sequence_dict) == [tag |-> "NamedAnd", sequence_dict |-> sequence_dict]

(***************************************************************************)
(* Leaf matchers: everything the generator yields, in order.               *)
(***************************************************************************)
\* re.match(r'^\s*$', string)
End_match(string) ==
    IF \A i \in 1..Len(string) : string[i] \in Whitespace
    THEN << Match(NON_CAPTURING, string, <<>>) >>
    ELSE <<>>

\* re.match(rf'^\s*{escaped}', string): \s* is greedy and gives whitespace
\* back until the literal fits
Exact_match(self, string) ==
    LET fits == {k \in 0..RunLength(string, 0, Whitespace) :
                    StartsWith(From(string, k), self.exact)}
    IN  IF fits = {} THEN <<>>
        ELSE LET k   == CHOOSE x \in fits : \A y \in fits : y <= x
                 end == k + Len(self.exact)
             IN  << Match(StrV(self.exact), Upto(string, end), From(string, end)) >>

\* re.match(r'^\s*([+-]?[0-9]+)(?=\D|$)', string)
Integer_match(string) ==
    LET spaces == RunLength(string, 0, Whitespace)
        sign   == IF spaces < Len(string) /\ string[spaces + 1] \in {"+", "-"}
                  THEN 1 ELSE 0
        digits == RunLength(string, spaces + sign, Digits)
        end    == spaces + sign + digits
    IN  IF digits = 0 THEN <<>>
        ELSE << Match(IntV(ParseInt(SubSeq(string, spaces + 1, end))),
                      Upto(string, end), From(string, end)) >>

\* re.match(r'^\s*(\S+)(?=\s|$)', string)
Word_match(string) ==
    LET spaces == RunLength(string, 0, Whitespace)
        run    == RunLengthNot(string, spaces, Whitespace)
        end    == spaces + run
    IN  IF run = 0 THEN <<>>
        ELSE << Match(StrV(SubSeq(string, spaces + 1, end)),
                      Upto(string, end), From(string, end)) >>

\* for i in range(len(string)-1, 0, -1)
String_match(string) ==
    LET count == IF Len(string) = 0 THEN 0 ELSE Len(string) - 1
    IN  [j \in 1..count |->
            LET i == Len(string) - j
            IN  Match(StrV(Upto(string, i)), Upto(string, i), From(string, i))]

\* the value the loop variable first_bad_index is left with: the index of the
\* first excluded character, or the last index when the loop runs to its end
first_bad_index(self, string) ==
    LET bad == {i \in 0..(Len(string) - 1) : string[i + 1] \in self.exclude}
    IN  IF bad = {} THEN Len(string) - 1
        ELSE CHOOSE i \in bad : \A j \in bad : i <= j

\* for i in range(1, first_bad_index+1)
StringWithout_match(self, string) ==
    IF string = <<>> THEN <<>>
    ELSE [i \in 1..first_bad_index(self, string) |->
            Match(StrV(Upto(string, i)), Upto(string, i), From(string, i))]

(***************************************************************************)
(* Decorators and composites: everything the generator yields, in order.   *)
(***************************************************************************)
\* UserLink.convert of example.py: [link, label] = converted
UserLink_convert(converted) ==
    [userlink |-> << converted.list[1], converted.list[2] >>]

\* self.transform_function(m.converted), the function given by its name
transform_function(name, converted) ==
    CASE name = "UserLink.convert" -> UserLink_convert(converted)

\* [m.converted for m in subtree if m.converted is not NON_CAPTURING]
Capturing_KeepAll(matches) ==
    [i \in 1..Len(matches) |-> matches[i].converted]

Capturing(matches) ==
    LET kept == SelectSeq(matches, LAMBDA m : m.converted # NON_CAPTURING)
    IN  [i \in 1..Len(kept) |-> kept[i].converted]

\* ''.join(m.captured for m in matches)
Captured(matches) ==
    Join([i \in 1..Len(matches) |-> matches[i].captured])

\* the body of the final loop of Sequence.breadth_first: one result per leaf
SubtreeResult_LastCaptureOnly(subtree) ==
    Match(ListV(Capturing(subtree)),
          subtree[Len(subtree)].captured,
          subtree[Len(subtree)].rest)

SubtreeResult(subtree) ==
    Match(ListV(Capturing(subtree)),
          Captured(subtree),
          subtree[Len(subtree)].rest)

\* the body of the loop of ZeroOrMore.match: one result per history
HistoryResult_EmptyRest(history, string) ==
    Match(ListV(Capturing(history)),
          Captured(history),
          IF history = <<>> THEN <<>> ELSE history[Len(history)].rest)

HistoryResult(history, string) ==
    Match(ListV(Capturing(history)),
          Captured(history),
          IF history = <<>> THEN string ELSE history[Len(history)].rest)

\* the test of OneOrMore.match on a result of ZeroOrMore
OneOrMore_keeps(m) == m.converted # ListV(<<>>)

\* {name: captured for (name, captured) in zip(keys, m.converted)}
ZipDict(keys, converted) ==
    LET n == IF Len(keys) <= Len(converted) THEN Len(keys) ELSE Len(converted)
    IN  DictV([i \in 1..n |-> << keys[i], converted[i] >>])

RECURSIVE match(_, _)

RECURSIVE traverse(_, _, _)

RECURSIVE ExpandLayers(_, _)

Transform_match(self, string) ==
    LET ms == match(self.spec, string)
    IN  [i \in 1..Len(ms) |->
            replace_converted(ms[i],
                transform_function(self.transform_function, ms[i].converted))]

NonCapturing_match(self, string) ==
    LET ms == match(self.subspec, string)
    IN  [i \in 1..Len(ms) |-> replace_converted(ms[i], NON_CAPTURING)]

Either_match(self, string) ==
    Flatten([i \in 1..Len(self.options) |-> match(self.options[i], string)])

\* current_leaves = [[m] for m in self.sequence[0].match(string)]
InitialLeaves(self, string) ==
    LET ms == match(self.sequence[1], string)
    IN  [i \in 1..Len(ms) |-> << ms[i] >>]

\* children = list(reversed(self.sequence)); children.pop()
InitialChildren(self) ==
    LET children == Reversed(self.sequence)
    IN  Upto(children, Len(children) - 1)

\* one pass of the while loop: every leaf extended by every match of the
\* child against the leaf's remainder (`if m` holds of every Match, which
\* defines neither __bool__ nor __len__)
ExtendLeaves_FirstOnly(current_leaves, child) ==
    Flatten([i \in 1..Len(current_leaves) |->
        LET leaf == current_leaves[i]
            ms   == match(child, leaf[Len(leaf)].rest)
        IN  IF ms = <<>> THEN <<>> ELSE << Append(leaf, ms[1]) >>])

ExtendLeaves_Newest(current_leaves, child) ==
    Flatten([i \in 1..Len(current_leaves) |->
        LET leaf == current_leaves[i]
            ms   == match(child, leaf[Len(leaf)].rest)
        IN  [j \in 1..Len(ms) |-> Append(leaf, ms[Len(ms) + 1 - j])]])

ExtendLeaves(current_leaves, child) ==
    Flatten([i \in 1..Len(current_leaves) |->
        LET leaf == current_leaves[i]
            ms   == match(child, leaf[Len(leaf)].rest)
        IN  [j \in 1..Len(ms) |-> Append(leaf, ms[j])]])

\* while current_leaves and children: child = children.pop(); ...
ExpandLayers(current_leaves, children) ==
    IF current_leaves # <<>> /\ children # <<>>
    THEN ExpandLayers(ExtendLeaves(current_leaves, children[Len(children)]),
                      Upto(children, Len(children) - 1))
    ELSE current_leaves

breadth_first(self, string) ==
    LET leaves == ExpandLayers(InitialLeaves(self, string), InitialChildren(self))
    IN  [i \in 1..Len(leaves) |-> SubtreeResult(leaves[i])]

\* what Sequence.match yields; on an empty child list breadth_first raises
\* IndexError after the one result, which only the state machine below shows
Sequence_match(self, string) ==
    IF self.sequence = <<>>
    THEN << Match(ListV(<<>>), <<>>, string) >>
    ELSE breadth_first(self, string)

\* yield history; for m in self.subspec.match(string): yield from ...
traverse(self, string, history) ==
    LET ms == match(self.subspec, string)
    IN  << history >>
        \o Flatten([i \in 1..Len(ms) |->
                       traverse(self, ms[i].rest, Append(history, ms[i]))])

ZeroOrMore_match(self, string) ==
    LET histories == traverse(self, string, <<>>)
    IN  [i \in 1..Len(histories) |-> HistoryResult(histories[i], string)]

OneOrMore_match(self, string) ==
    SelectSeq(ZeroOrMore_match(ZeroOrMore(self.subspec), string), OneOrMore_keeps)

NamedOr_match(self, string) ==
    Flatten([i \in 1..Len(self.options_dict) |->
        LET name == self.options_dict[i][1]
            ms   == match(self.options_dict[i][2], string)
        IN  [j \in 1..Len(ms) |->
                replace_converted(ms[j], DictV(<< << name, ms[j].converted >> >>))]])

NamedAnd_match(self, string) ==
    LET keys == [i \in 1..Len(self.sequence_dict) |-> self.sequence_dict[i][1]]
        seq  == Sequence([i \in 1..Len(self.sequence_dict) |-> self.sequence_dict[i][2]])
        ms   == Sequence_match(seq, string)
    IN  [j \in 1..Len(ms) |->
            replace_converted(ms[j], ZipDict(keys, ms[j].converted.list))]

\* spec.match(string), by the class of spec
match(spec, string) ==
    CASE spec.tag = "End"           -> End_match(string)
      [] spec.tag = "Exact"         -> Exact_match(spec, string)
      [] spec.tag = "Transform"     -> Transform_match(spec, string)
      [] spec.tag = "NonCapturing"  -> NonCapturing_match(spec, string)
      [] spec.tag = "Integer"       -> Integer_match(string)
      [] spec.tag = "Word"          -> Word_match(string)
      [] spec.tag = "String"        -> String_match(string)
      [] spec.tag = "StringWithout" -> StringWithout_match(spec, string)
      [] spec.tag = "Either"        -> Either_match(spec, string)
      [] spec.tag = "Sequence"      -> Sequence_match(spec, string)
      [] spec.tag = "ZeroOrMore"    -> ZeroOrMore_match(spec, string)
      [] spec.tag = "OneOrMore"     -> OneOrMore_match(spec, string)
      [] spec.tag = "NamedOr"       -> NamedOr_match(spec, string)
      [] spec.tag = "NamedAnd"      -> NamedAnd_match(spec, string)

(***************************************************************************)
(* The sugar layer (arg_parse.py).  A pattern description is a spec, or    *)
(* one of the Python values below.                                         *)
(***************************************************************************)
\* a list of descriptions
PyList(items) == [py |-> "list", items |-> items]

\* a dict of descriptions, as its <<key, description>> items
PyDict(items) == [py |-> "dict", items |-> items]

\* a str value
PyStr(value) == [py |-> "str", value |-> value]

\* the type int
PyIntType == [py |-> "int"]

\* the type str
PyStrType == [py |-> "strtype"]

\* isinstance(x, _base.Spec)
IsSpec(x) == "tag" \in DOMAIN x

RECURSIVE _convert(_)

\* spec.fmap(_convert), by the class of spec; a leaf returns itself
fmap_convert(spec) ==
    CASE spec.tag = "Transform" ->
            Transform(_convert(spec.spec), spec.transform_function)
      [] spec.tag = "NonCapturing" -> NonCapturing(_convert(spec.subspec))
      [] spec.tag = "Either" ->
            Either([i \in 1..Len(spec.options) |-> _convert(spec.options[i])])
      [] spec.tag = "Sequence" ->
            Sequence([i \in 1..Len(spec.sequence) |-> _convert(spec.sequence[i])])
      [] spec.tag = "ZeroOrMore" -> ZeroOrMore(_convert(spec.subspec))
      [] spec.tag = "OneOrMore" -> OneOrMore(_convert(spec.subspec))
      [] spec.tag = "NamedOr" ->
            NamedOr([i \in 1..Len(spec.options_dict) |->
                << spec.options_dict[i][1], _convert(spec.options_dict[i][2]) >>])
      [] spec.tag = "NamedAnd" ->
            NamedAnd([i \in 1..Len(spec.sequence_dict) |->
                << spec.sequence_dict[i][1], _convert(spec.sequence_dict[i][2]) >>])
      [] OTHER -> spec

_convert(spec) ==
    IF IsSpec(spec) THEN fmap_convert(spec)
    ELSE CASE spec.py = "list"    -> fmap_convert(Sequence(spec.items))
           [] spec.py = "dict"    -> fmap_convert(NamedAnd(spec.items))
           [] spec.py = "str"     -> fmap_convert(NonCapturing(Exact(spec.value)))
           [] spec.py = "int"     -> Integer
           [] spec.py = "strtype" -> String

without(excluded_characters) == StringWithout(excluded_characters)

one_or_more(spec) == OneOrMore(spec)

zero_or_more(spec) == OneOrMore(spec)

\* the spec arg_parse.match hands to first_match
match_pattern(pattern) ==
    IF ~IsSpec(pattern) /\ pattern.py = "list"
    THEN _convert(PyList(Append(pattern.items, End)))
    ELSE _convert(PyList(<< pattern, End >>))

(***************************************************************************)
(* The calls the model makes: a pattern, built directly from the classes   *)
(* of arg_parse_base or through the sugar layer, and an input string.      *)
(***************************************************************************)
\* all strings over Alphabet of at most n characters
Strings(n) == UNION {[1..k -> Alphabet] : k \in 0..n}

A == Exact(<< "a" >>)

\* specs whose every match consumes at least one character
ShrinkingSpecs ==
    { A, Integer, Word, String, StringWithout({"]"}), NonCapturing(A),
      Either(<< Integer, StringWithout({"]"}) >>) }

\* the child lists of the Sequence specs
SequenceLists ==
    { <<>>,
      << String >>,
      << String, String >>,
      << String, Integer >>,
      << StringWithout({"]"}), Either(<< Word, String >>) >>,
      << Either(<< Integer, Word >>), End >>,
      << StringWithout({"]"}), NonCapturing(Exact(<< "]" >>)), Either(<< Integer, Word >>) >>,
      << ZeroOrMore(A), End >>,
      << NonCapturing(String), OneOrMore(Integer) >> }

\* specs built from the classes of arg_parse_base
BaseSpecs ==
    { End, A, Exact(<<>>), Exact(<< " ", "a" >>), Integer, Word, String,
      StringWithout({"]"}), StringWithout({"a", " "}),
      NonCapturing(A),
      Transform(Sequence(<< Word, Integer >>), "UserLink.convert"),
      Either(<< Integer, Word, String >>),
      NamedOr(<< << "n", Integer >>, << "w", Word >> >>),
      NamedAnd(<< << "x", StringWithout({"]"}) >>, << "y", Word >> >>) }
    \cup {Sequence(l) : l \in SequenceLists}
    \cup {ZeroOrMore(x) : x \in ShrinkingSpecs \cup {End, Exact(<<>>)}}
    \cup {OneOrMore(x) : x \in ShrinkingSpecs}

\* the message of example.py
BanMessage ==
    << "/", "b", "a", "n", " ", "[", "h", "e", "l", "l", "o", "|",
       "w", "o", "r", "l", "d", "]", " ", "4", "2" >>

\* the first pattern of example.py
BanPattern ==
    PyList(<< PyStr(<< "/" >>), PyStr(<< "b", "a", "n" >>),
              PyList(<< PyStr(<< "[" >>), without({"|"}), PyStr(<< "|" >>),
                        without({"]"}), PyStr(<< "]" >>) >>),
              PyIntType >>)

\* patterns given to arg_parse.match
MatchPatterns ==
    { BanPattern, PyIntType, PyList(<< PyStr(<< "a" >>), PyStrType >>) }

\* spec.first_match(string) or list(spec.match(string)) on a spec built
\* directly, on the result of a sugar constructor, or arg_parse.match
Calls ==
    [via : {"base"}, spec : BaseSpecs, consumer : {"first_match", "list"}]
    \cup [via : {"zero_or_more", "one_or_more"}, arg : ShrinkingSpecs,
          consumer : {"first_match", "list"}]
    \cup [via : {"match"}, pattern : MatchPatterns, consumer : {"first_match"}]

\* the spec whose generator the call runs
BuiltSpec(call) ==
    CASE call.via = "base"         -> call.spec
      [] call.via = "zero_or_more" -> zero_or_more(call.arg)
      [] call.via = "one_or_more"  -> one_or_more(call.arg)
      [] call.via = "match"        -> match_pattern(call.pattern)

(***************************************************************************)
(* The state: one call, the generator it runs and what the consumer got.   *)
(***************************************************************************)
VARIABLES
    call,            \* the call made
    spec,            \* the spec whose match generator runs
    string,          \* the input string
    pc,              \* where the generator (or its consumer) stands
    yielded,         \* the Match values handed to the consumer, in order
    result,          \* what the consumer returned
    err,             \* the exception that left the generator, if any
    computed,        \* child Match values produced for the generator so far
    current_leaves,  \* Sequence.breadth_first
    children,        \* Sequence.breadth_first
    pos,             \* index of the last element a for loop handed out
    stack            \* the nested frames of ZeroOrMore.traverse

vars == << call, spec, string, pc, yielded, result, err, computed,
           current_leaves, children, pos, stack >>

Pending == [pending |-> TRUE]

None == [none |-> TRUE]

Init ==
    /\ call \in Calls
    /\ spec = BuiltSpec(call)
    /\ string \in Strings(MaxLen) \cup (IF call.via = "match" THEN {BanMessage} ELSE {})
    /\ pc = "created"
    /\ yielded = <<>>
    /\ result = Pending
    /\ err = "none"
    /\ computed = 0
    /\ current_leaves = <<>>
    /\ children = <<>>
    /\ pos = 0
    /\ stack = <<>>

\* the generator yields m: first_match returns it (next(...) is called
\* once), list(...) keeps it and resumes the generator at `suspended`
Deliver(m, suspended) ==
    /\ yielded' = Append(yielded, m)
    /\ IF call.consumer = "first_match"
       THEN pc' = "returned" /\ result' = m
       ELSE pc' = suspended /\ result' = result

\* the generator ends: first_match returns None, list(...) its list
StopIteration ==
    /\ pc' = "returned"
    /\ result' = IF call.consumer = "first_match" THEN None ELSE ListV(yielded)

(***************************************************************************)
(* Sequence.match and Sequence.breadth_first.                              *)
(***************************************************************************)
SequenceEmptyYield ==
    /\ pc = "created"
    /\ spec.tag = "Sequence"
    /\ spec.sequence = <<>>
    /\ Deliver(Match(ListV(<<>>), <<>>, string), "after_empty")
    /\ UNCHANGED << call, spec, string, err, computed, current_leaves, children, pos, stack >>

\* self.sequence[0] of an empty list
BreadthFirstIndexError ==
    /\ pc = "after_empty"
    /\ pc' = "raised"
    /\ err' = "IndexError"
    /\ UNCHANGED << call, spec, string, yielded, result, computed, current_leaves,
                    children, pos, stack >>

BreadthFirstStart ==
    /\ pc = "created"
    /\ spec.tag = "Sequence"
    /\ spec.sequence # <<>>
    /\ current_leaves' = InitialLeaves(spec, string)
    /\ children' = InitialChildren(spec)
    /\ computed' = computed + Len(current_leaves')
    /\ pc' = "while"
    /\ UNCHANGED << call, spec, string, yielded, result, err, pos, stack >>

BreadthFirstExpand ==
    /\ pc = "while"
    /\ current_leaves # <<>> /\ children # <<>>
    /\ current_leaves' = ExtendLeaves(current_leaves, children[Len(children)])
    /\ children' = Upto(children, Len(children) - 1)
    /\ computed' = computed + Len(current_leaves')
    /\ UNCHANGED << call, spec, string, pc, yielded, result, err, pos, stack >>

BreadthFirstLoopExit ==
    /\ pc = "while"
    /\ ~(current_leaves # <<>> /\ children # <<>>)
    /\ pc' = "for"
    /\ UNCHANGED << call, spec, string, yielded, result, err, computed,
                    current_leaves, children, pos, stack >>

BreadthFirstYield ==
    /\ pc = "for"
    /\ pos < Len(current_leaves)
    /\ pos' = pos + 1
    /\ Deliver(SubtreeResult(current_leaves[pos + 1]), "for")
    /\ UNCHANGED << call, spec, string, err, computed, current_leaves, children, stack >>

BreadthFirstStop ==
    /\ pc = "for"
    /\ pos = Len(current_leaves)
    /\ StopIteration
    /\ UNCHANGED << call, spec, string, yielded, err, computed, current_leaves,
                    children, pos, stack >>

(***************************************************************************)
(* ZeroOrMore.match over ZeroOrMore.traverse, and OneOrMore.match over it. *)
(* A frame of traverse holds its arguments and the number of matches of    *)
(* the subspec its for loop has taken.                                     *)
(***************************************************************************)
Frame(str, history) == [string |-> str, history |-> history, taken |-> 0]

Top == stack[Len(stack)]

\* the matches the for loop of the innermost frame iterates over
TopMatches == match(spec.subspec, Top.string)

TraverseCall ==
    /\ pc = "created"
    /\ spec.tag \in {"ZeroOrMore", "OneOrMore"}
    /\ stack' = << Frame(string, <<>>) >>
    /\ pc' = "yield_history"
    /\ UNCHANGED << call, spec, string, yielded, result, err, computed,
                    current_leaves, children, pos >>

\* yield history, turned into a Match by ZeroOrMore.match; OneOrMore.match
\* passes it on when its test holds
TraverseYield ==
    /\ pc = "yield_history"
    /\ LET m == HistoryResult(Top.history, string)
       IN  /\ spec.tag = "OneOrMore" => OneOrMore_keeps(m)
           /\ Deliver(m, "loop")
    /\ UNCHANGED << call, spec, string, err, computed, current_leaves, children, pos, stack >>

\* OneOrMore.match drops the result and asks for the next
OneOrMoreSkip ==
    /\ pc = "yield_history"
    /\ spec.tag = "OneOrMore"
    /\ ~OneOrMore_keeps(HistoryResult(Top.history, string))
    /\ pc' = "loop"
    /\ UNCHANGED << call, spec, string, yielded, result, err, computed,
                    current_leaves, children, pos, stack >>

\* for m in self.subspec.match(string): yield from self.traverse(m.rest, ...)
TraverseDescend ==
    /\ pc = "loop"
    /\ Top.taken < Len(TopMatches)
    /\ Len(stack) < RecursionLimit
    /\ LET m == TopMatches[Top.taken + 1]
       IN  stack' = Append([stack EXCEPT ![Len(stack)].taken = @ + 1],
                           Frame(m.rest, Append(Top.history, m)))
    /\ computed' = computed + 1
    /\ pc' = "yield_history"
    /\ UNCHANGED << call, spec, string, yielded, result, err, current_leaves, children, pos >>

\* the interpreter refuses another nested frame
TraverseRecursionError ==
    /\ pc = "loop"
    /\ Top.taken < Len(TopMatches)
    /\ Len(stack) >= RecursionLimit
    /\ pc' = "raised"
    /\ err' = "RecursionError"
    /\ UNCHANGED << call, spec, string, yielded, result, computed, current_leaves,
                    children, pos, stack >>

\* the for loop of the innermost frame is over and the frame returns
TraverseReturn ==
    /\ pc = "loop"
    /\ Top.taken = Len(TopMatches)
    /\ Len(stack) > 1
    /\ stack' = Upto(stack, Len(stack) - 1)
    /\ UNCHANGED << call, spec, string, pc, yielded, result, err, computed,
                    current_leaves, children, pos >>

TraverseStop ==
    /\ pc = "loop"
    /\ Top.taken = Len(TopMatches)
    /\ Len(stack) = 1
    /\ stack' = <<>>
    /\ StopIteration
    /\ UNCHANGED << call, spec, string, yielded, err, computed, current_leaves,
                    children, pos >>

(***************************************************************************)
(* The generators of the other classes, one Match per step.                *)
(***************************************************************************)
OtherTags ==
    {"End", "Exact", "Transform", "NonCapturing", "Integer", "Word", "String",
     "StringWithout", "Either", "NamedOr", "NamedAnd"}

GeneratorYield ==
    /\ pc \in {"created", "suspended"}
    /\ spec.tag \in OtherTags
    /\ pos < Len(match(spec, string))
    /\ pos' = pos + 1
    /\ Deliver(match(spec, string)[pos + 1], "suspended")
    /\ UNCHANGED << call, spec, string, err, computed, current_leaves, children, stack >>

GeneratorStop ==
    /\ pc \in {"created", "suspended"}
    /\ spec.tag \in OtherTags
    /\ pos = Len(match(spec, string))
    /\ StopIteration
    /\ UNCHANGED << call, spec, string, yielded, err, computed, current_leaves,
                    children, pos, stack >>

Next ==
    \/ SequenceEmptyYield
    \/ BreadthFirstIndexError
    \/ BreadthFirstStart
    \/ BreadthFirstExpand
    \/ BreadthFirstLoopExit
    \/ BreadthFirstYield
    \/ BreadthFirstStop
    \/ TraverseCall
    \/ TraverseYield
    \/ OneOrMoreSkip
    \/ TraverseDescend
    \/ TraverseRecursionError
    \/ TraverseReturn
    \/ TraverseStop
    \/ GeneratorYield
    \/ GeneratorStop

Spec == Init /\ [][Next]_vars

(***************************************************************************)
(* Reference enumerations the claims compare the generators with.          *)
(***************************************************************************)
\* the nested loops  for m_i in c_i.match(s): for m_i+1 in c_i+1.match(m_i.rest): ...
\* over the children i..n: the paths <<m_i, ..., m_n>> in loop order
RECURSIVE NestedLoop(_, _, _)
NestedLoop(sequence, i, s) ==
    IF i > Len(sequence) THEN << <<>> >>
    ELSE LET ms == match(sequence[i], s)
         IN  Flatten([j \in 1..Len(ms) |->
                 LET tails == NestedLoop(sequence, i + 1, ms[j].rest)
                 IN  [k \in 1..Len(tails) |-> << ms[j] >> \o tails[k]]])

\* captured and rest of the result the nested loops give for a path
NestedResult(path) ==
    << Join([i \in 1..Len(path) |-> path[i].captured]), path[Len(path)].rest >>

\* the number of child matches the nested loops, run lazily, produce up to
\* and including their first complete path
RECURSIVE LazySearch(_, _, _)

RECURSIVE LazyScan(_, _, _, _)

LazySearch(sequence, i, s) ==
    IF i > Len(sequence) THEN [found |-> TRUE, cost |-> 0]
    ELSE LazyScan(sequence, i, match(sequence[i], s), 1)

LazyScan(sequence, i, ms, j) ==
    IF j > Len(ms) THEN [found |-> FALSE, cost |-> 0]
    ELSE LET below == LazySearch(sequence, i + 1, ms[j].rest)
         IN  IF below.found THEN [found |-> TRUE, cost |-> 1 + below.cost]
             ELSE LET after == LazyScan(sequence, i, ms, j + 1)
                  IN  [found |-> after.found, cost |-> 1 + below.cost + after.cost]

\* the number of paths of every length 1..n the nested loops pass through
RECURSIVE FrontierTotal(_, _, _)
FrontierTotal(sequence, k, s) ==
    IF k > Len(sequence) THEN 0
    ELSE Len(NestedLoop(Upto(sequence, k), 1, s)) + FrontierTotal(sequence, k + 1, s)

\* the zero-repetition result on input s
ZeroRepetition(s) == Match(ListV(<<>>), <<>>, s)

\* the call has returned to the caller of list(spec.match(string))
Drained == pc = "returned" /\ call.consumer = "list"

\* the call has returned to the caller of spec.first_match(string)
FirstMatchReturned == pc = "returned" /\ call.consumer = "first_match"

(***************************************************************************)
(* C1: every Match a spec yields splits the input it was given:            *)
(* captured + rest == string.                                              *)
(***************************************************************************)
C1_CapturedPlusRest ==
    \A i \in 1..Len(yielded) : yielded[i].captured \o yielded[i].rest = string

\* a Sequence has yielded several results that consume part of the input
C1_Witness ==
    /\ Drained
    /\ spec.tag = "Sequence"
    /\ Len(spec.sequence) >= 2
    /\ Len(yielded) >= 2
    /\ \A i \in 1..Len(yielded) : yielded[i].captured # <<>> /\ yielded[i].rest # <<>>

(***************************************************************************)
(* C2: a Sequence with a non-empty child list yields exactly the results   *)
(* of the nested-loop enumeration over its children, in the same order and *)
(* multiplicity, each with captured = the concatenation of the path's      *)
(* captures and rest = the last match's rest.                              *)
(***************************************************************************)
C2_SequenceIsNestedLoop ==
    (Drained /\ spec.tag = "Sequence" /\ spec.sequence # <<>>) =>
        LET paths == NestedLoop(spec.sequence, 1, string)
        IN  [i \in 1..Len(yielded) |-> << yielded[i].captured, yielded[i].rest >>]
            = [i \in 1..Len(paths) |-> NestedResult(paths[i])]

\* a drained Sequence of several children with several results, the first
\* child contributing more than one choice
C2_Witness ==
    /\ Drained
    /\ spec.tag = "Sequence"
    /\ Len(spec.sequence) >= 2
    /\ Len(yielded) >= 3
    /\ \E i, j \in 1..Len(current_leaves) :
          current_leaves[i][1] # current_leaves[j][1]

(***************************************************************************)
(* C3: arg_parse.match of the /ban pattern of example.py against           *)
(* "/ban [hello|world] 42" succeeds and its converted value is the flat    *)
(* list ["hello", "world", 42].                                            *)
(***************************************************************************)
Hello == << "h", "e", "l", "l", "o" >>

World == << "w", "o", "r", "l", "d" >>

BanCall == call.via = "match" /\ call.pattern = BanPattern /\ string = BanMessage

\* the claim as stated: the flat list
C3_BanFlat ==
    (FirstMatchReturned /\ BanCall) =>
        /\ result # None
        /\ result.converted = ListV(<< StrV(Hello), StrV(World), IntV(42) >>)

\* C3 as amended: the match succeeds and its converted value is the nested
\* list [["hello", "world"], 42], the inner Sequence contributing one list
C3_BanNested ==
    (FirstMatchReturned /\ BanCall) =>
        /\ result # None
        /\ result.converted
             = ListV(<< ListV(<< StrV(Hello), StrV(World) >>), IntV(42) >>)
        /\ result.captured = BanMessage
        /\ result.rest = <<>>

C3_Witness == FirstMatchReturned /\ BanCall /\ result # None

(***************************************************************************)
(* C4: StringWithout(E) yields one result per non-empty prefix of the      *)
(* input made only of characters outside E, from the longest such prefix   *)
(* to the shortest.                                                        *)
(***************************************************************************)
C4_StringWithoutLongestFirst ==
    (Drained /\ spec.tag = "StringWithout") =>
        LET good == RunLengthNot(string, 0, spec.exclude)
        IN  yielded = [j \in 1..good |->
                LET i == good + 1 - j
                IN  Match(StrV(Upto(string, i)), Upto(string, i), From(string, i))]

(***************************************************************************)
(* C5: draining Sequence([]).match(s) gives exactly one result,            *)
(* Match([], "", s), and then ends normally with no error raised.          *)
(***************************************************************************)
C5_EmptySequenceEndsNormally ==
    (spec = Sequence(<<>>) /\ call.consumer = "list" /\ pc \in {"returned", "raised"}) =>
        /\ yielded = << ZeroRepetition(string) >>
        /\ pc = "returned"
        /\ err = "none"

(***************************************************************************)
(* C6: OneOrMore(X) yields, in order, exactly the results of ZeroOrMore(X) *)
(* that come from a repetition path of length >= 1.                        *)
(***************************************************************************)
C6_OneOrMoreDropsOnlyEmptyPath ==
    (Drained /\ call.via = "base" /\ spec.tag = "OneOrMore") =>
        LET histories == SelectSeq(traverse(ZeroOrMore(spec.subspec), string, <<>>),
                                   LAMBDA h : h # <<>>)
        IN  yielded = [i \in 1..Len(histories) |-> HistoryResult(histories[i], string)]

(***************************************************************************)
(* C7: draining a match sequence terminates; for ZeroOrMore(X) because     *)
(* every repetition step strictly shrinks the remainder, so the nesting of *)
(* traverse never outgrows the input and never exhausts the interpreter.   *)
(***************************************************************************)
C7_RepetitionTerminates ==
    /\ err # "RecursionError"
    /\ \A i \in 2..Len(stack) : Len(stack[i].string) < Len(stack[i - 1].string)

(***************************************************************************)
(* C8: first_match pulls one element and computes no child match candidate *)
(* that a lazy enumeration would not need for the first result.            *)
(***************************************************************************)
C8_FirstMatchLazy ==
    (FirstMatchReturned /\ spec.tag = "Sequence" /\ spec.sequence # <<>>) =>
        /\ Len(yielded) <= 1
        /\ computed <= LazySearch(spec.sequence, 1, string).cost

\* C8 as amended: first_match takes at most one element from the match
\* sequence (exactly one when it reports a match), but a Sequence has by
\* then computed every candidate of every child on every live path: all
\* the layers of its frontier in full
C8_FirstMatchPullsOnceSequenceEager ==
    FirstMatchReturned =>
        /\ Len(yielded) <= 1
        /\ (result # None) = (Len(yielded) = 1)
        /\ (spec.tag = "Sequence" /\ spec.sequence # <<>>) =>
               computed = FrontierTotal(spec.sequence, 1, string)

\* first_match has returned the first result of a Sequence that computed
\* more candidates than a lazy enumeration needs
C8_Witness ==
    /\ FirstMatchReturned
    /\ spec.tag = "Sequence" /\ spec.sequence # <<>>
    /\ result # None
    /\ computed > LazySearch(spec.sequence, 1, string).cost

(***************************************************************************)
(* C9: the first result of ZeroOrMore(X).match(s) is the zero-repetition   *)
(* result Match([], "", s), so the sequence is never empty and first_match *)
(* never reports no-match.                                                 *)
(***************************************************************************)
C9_ZeroRepetitionFirst ==
    (call.via = "base" /\ spec.tag = "ZeroOrMore") =>
        /\ yielded # <<>> => yielded[1] = ZeroRepetition(string)
        /\ pc \in {"loop", "returned", "raised"} => yielded # <<>>
        /\ FirstMatchReturned => result = ZeroRepetition(string)

\* first_match of a ZeroOrMore has returned on a non-empty input
C9_Witness ==
    /\ FirstMatchReturned
    /\ call.via = "base" /\ spec.tag = "ZeroOrMore"
    /\ string # <<>>
    /\ result # None

(***************************************************************************)
(* C10: zero_or_more(spec) yields the same results in the same order as    *)
(* ZeroOrMore(spec), the zero-repetition result included.                  *)
(***************************************************************************)
C10_SugarZeroOrMore ==
    (Drained /\ call.via = "zero_or_more") =>
        yielded = ZeroOrMore_match(ZeroOrMore(call.arg), string)

====
